---- MODULE Spec2Model ----
(***************************************************************************)
(* LINE chat relay: webhook -> Google Drive PDF fetch -> Gemini inference  *)
(* -> chunked reply/push delivery.  Two deployable programs are modelled:  *)
(*   "multi"  = src/app2-multi-pdf.py (three PDFs, chunked delivery)       *)
(*   "single" = src/app.py            (one PDF, one reply)                 *)
(* A text is a sequence of characters; fixed messages and exception texts  *)
(* are short sequences of word tokens.                                     *)
(***************************************************************************)
EXTENDS Integers, Sequences, FiniteSets, TLC

\* ---------------------------------------------------------------- bounds
MaxChunks == 3       \* longest response is MaxChunks * CHUNK + 1 characters
NumSeeds == 2        \* distinct response contents per length
MaxDocBytes == 1     \* a fetched PDF has 0..MaxDocBytes bytes

\* ------------------------------------------------------ program constants
THRESHOLD == 5000    \* app2-multi-pdf.py:203
CHUNK == 4000        \* app2-multi-pdf.py:205
NumDocs == 3         \* app2-multi-pdf.py:183-185

\* the webhook events in flight
Reqs == {1, 2}
Users == {"U" \o ToString(i) : i \in Reqs}
Variants == {"multi", "single"}
Alphabet == <<"a", "b", "c", "d", "e", "f", "g">>

Min(a, b) == IF a < b THEN a ELSE b

\* response.text: n characters whose value depends on position and on s
Text(n, s) == [i \in 1..n |-> Alphabet[((i * s) % Len(Alphabet)) + 1]]

Lens == {0, 1, THRESHOLD - 1, THRESHOLD, THRESHOLD + 1, 9000}
          \cup {k * CHUNK + d : k \in 1..MaxChunks, d \in {-1, 0, 1}}
ConcLens == {2 * CHUNK + 1}

\* ------------------------------------------------------------ fixed texts
AckText == <<"processing-please-wait">>          \* app2:178, app:145
EmptyPdfText == <<"cannot-process:a-pdf-is-empty">>  \* app2:193
TimeoutText == <<"query-timed-out-please-retry">>    \* app2:146
\* str(e) of the exceptions the collaborators raise
DriveError == <<"HttpError">>
TimeoutError == <<"ReadTimeout">>
ApiError == <<"ClientError">>
LineError == <<"LineBotApiError">>
TokenError == <<"Invalid-reply-token">>

\* f"處理您的查詢時發生錯誤: {str(e)}"
QueryErrorText(e) == <<"query-error:">> \o e
\* (fault: the error reply without the exception's description)
RequestErrorTextNoDetail(e) == <<"request-error:">>
\* f"處理您的請求時發生錯誤: {str(e)}"
RequestErrorText(e) == <<"request-error:">> \o e

\* ------------------------------------------------------------ the chunker
\* (fault: the remainder after the last full step is dropped)
RangeLenFloor(n, step) == n \div step
\* len(range(0, n, step))
RangeLen(n, step) == (n + step - 1) \div step
\* s[a:b] for 0 <= a <= b
Slice(s, a, b) == SubSeq(s, Min(a, Len(s)) + 1, Min(b, Len(s)))
\* [R[i:i+4000] for i in range(0, len(R), 4000)]
Chunks(R) == [k \in 1..RangeLen(Len(R), CHUNK) |->
                 Slice(R, (k - 1) * CHUNK, (k - 1) * CHUNK + CHUNK)]
\* (fault: a response of exactly THRESHOLD characters is split)
NeedsSplitAtThreshold(R) == Len(R) >= THRESHOLD
\* len(gemini_response) > 5000
NeedsSplit(R) == Len(R) > THRESHOLD
\* (fault: the loop runs over chunks instead of chunks[1:])
RestAll(c) == c
\* chunks[1:]
Rest(c) == SubSeq(c, 2, Len(c))

VARIABLES
  variant,          \* which program is deployed
  pc,               \* position of each request in callback/handle_text_message
  event,            \* the webhook event: user, reply token, signature validity
  oracle,           \* what Gemini would answer to the event's query
  fetches,          \* get_pdf_from_drive calls made
  docs,             \* for each PDF fetched so far: is its nbytes 0?
  uploads,          \* client.files.upload calls that returned
  generated,        \* client.models.generate_content calls made
  outcome,          \* how process_with_gemini ended
  gemini_response,  \* the string process_with_gemini returned
  chunks,           \* the list built at app2:205
  idx,              \* position of the loop at app2:214 in chunks[1:]
  exc,              \* str(e) of the exception being handled, <<>> if none
  calls,            \* outbound LINE calls each request made, in order
  inbox,            \* messages the platform delivered to each user, in order
  tokenUsed,        \* reply tokens the platform has consumed
  result            \* what callback answered to the platform

vars == <<variant, pc, event, oracle, fetches, docs, uploads, generated, outcome,
          gemini_response, chunks, idx, exc, calls, inbox, tokenUsed, result>>

process == <<fetches, docs, uploads, generated, outcome, gemini_response, chunks, idx>>
platform == <<calls, inbox, tokenUsed>>
fixed == <<variant, event, oracle>>

Token(p) == "T" \o ToString(p)
\* (fault: the user identifier kept in one module-level slot)
user_idShared(p) == event[1].user
\* user_id = event.source.user_id
user_id(p) == event[p].user
\* event.reply_token
reply_token(p) == event[p].reply_token
\* the platform resolves a reply token to the user whose event carried it
TokenOwner(t) == event[CHOOSE p \in Reqs : event[p].reply_token = t].user

Events == [user : Users, reply_token : {Token(p) : p \in Reqs}, valid : BOOLEAN]
Oracles(L) == [len : L, seed : 1..NumSeeds]

InitCommon ==
  /\ variant \in Variants
  /\ fetches = [p \in Reqs |-> 0]
  /\ docs = [p \in Reqs |-> <<>>]
  /\ uploads = [p \in Reqs |-> 0]
  /\ generated = [p \in Reqs |-> 0]
  /\ outcome = [p \in Reqs |-> "none"]
  /\ gemini_response = [p \in Reqs |-> <<>>]
  /\ chunks = [p \in Reqs |-> <<>>]
  /\ idx = [p \in Reqs |-> 0]
  /\ exc = [p \in Reqs |-> <<>>]
  /\ calls = [p \in Reqs |-> <<>>]
  /\ inbox = [u \in Users |-> <<>>]
  /\ tokenUsed = {}
  /\ result = [p \in Reqs |-> "none"]

\* one webhook event, any content
Init ==
  /\ InitCommon
  /\ event \in [Reqs -> Events]
  /\ \A p \in Reqs : event[p].reply_token = Token(p)
  /\ \A p \in Reqs : p > 1 => event[p] = [user |-> "U2", reply_token |-> Token(p), valid |-> TRUE]
  /\ oracle \in [Reqs -> Oracles(Lens)]
  /\ \A p \in Reqs : p > 1 => oracle[p] = [len |-> 0, seed |-> 1]
  /\ pc = [p \in Reqs |-> IF p = 1 THEN "callback" ELSE "absent"]

\* -------------------------------------------------- the messaging platform
\* May this call succeed?  A reply token is single use.
CanSucceed(op, to) == IF op = "push" THEN TRUE ELSE to \notin tokenUsed
Recipient(op, to) == IF op = "reply" THEN TokenOwner(to) ELSE to

\* line_bot_api.reply_message / push_message at source line `site`
Call(p, op, to, text, ok, site) ==
  /\ ok => CanSucceed(op, to)
  /\ calls' = [calls EXCEPT ![p] =
                 Append(@, [op |-> op, to |-> to, text |-> text, ok |-> ok, site |-> site])]
  /\ inbox' = IF ok THEN [inbox EXCEPT ![Recipient(op, to)] = Append(@, text)]
                    ELSE inbox
  /\ tokenUsed' = IF ok /\ op = "reply" THEN tokenUsed \cup {to} ELSE tokenUsed

\* the exception a failed LINE call raises
LineFailure(op, to) == IF op = "reply" /\ to \in tokenUsed THEN TokenError ELSE LineError

\* after a LINE call in the try body: go on, or enter the except clause
AfterCall(p, op, to, ok, next) ==
  /\ pc' = [pc EXCEPT ![p] = IF ok THEN next ELSE "except"]
  /\ exc' = [exc EXCEPT ![p] = IF ok THEN @ ELSE LineFailure(op, to)]
  /\ result' = [result EXCEPT ![p] = IF ok /\ next = "done" THEN "OK" ELSE @]

\* --------------------------------------------------------------- callback
\* (fault: the multi-document handler starts with the fetch)
EntrySkipsAck(v) == IF v = "multi" THEN "fetch" ELSE "app_fetch"
\* the first statement of the try body of handle_text_message
Entry(v) == IF v = "multi" THEN "ack" ELSE "app_fetch"

callback(p) ==
  /\ pc[p] = "callback"
  /\ IF event[p].valid
       THEN /\ pc' = [pc EXCEPT ![p] = Entry(variant)]
            /\ UNCHANGED result
       ELSE /\ pc' = [pc EXCEPT ![p] = "done"]
            /\ result' = [result EXCEPT ![p] = "400"]
  /\ UNCHANGED <<fixed, process, platform, exc>>

\* ------------------------------------- app2-multi-pdf.py handle_text_message
AckPush(p) ==
  /\ pc[p] = "ack"
  /\ \E ok \in BOOLEAN :
       /\ Call(p, "push", user_id(p), AckText, ok, 176)
       /\ AfterCall(p, "push", user_id(p), ok, "fetch")
  /\ UNCHANGED <<fixed, process>>

\* get_pdf_from_drive(GOOGLE_DRIVE_PDFi_ID): a BytesIO of n bytes, of which the
\* handler only ever reads whether n is 0, or the exception re-raised
FetchPdf(p) ==
  /\ pc[p] = "fetch"
  /\ Len(docs[p]) < NumDocs
  /\ fetches' = [fetches EXCEPT ![p] = @ + 1]
  /\ \/ \E n \in 0..MaxDocBytes :
          /\ docs' = [docs EXCEPT ![p] = Append(@, n = 0)]
          /\ pc' = [pc EXCEPT ![p] = IF Len(docs[p]) + 1 = NumDocs THEN "check" ELSE "fetch"]
          /\ UNCHANGED exc
     \/ /\ exc' = [exc EXCEPT ![p] = DriveError]
        /\ pc' = [pc EXCEPT ![p] = "except"]
        /\ UNCHANGED docs
  /\ UNCHANGED <<fixed, uploads, generated, outcome, gemini_response, chunks, idx,
                 platform, result>>

\* (fault: only the first PDF is tested)
AnyEmptyFirstOnly(d) == d[1]
\* pdf_data1.getbuffer().nbytes == 0 or ... == 0 or ... == 0
AnyEmpty(d) == \E i \in 1..Len(d) : d[i]

CheckEmpty(p) ==
  /\ pc[p] = "check"
  /\ IF AnyEmpty(docs[p])
       THEN \E ok \in BOOLEAN :
              /\ Call(p, "reply", reply_token(p), EmptyPdfText, ok, 191)
              /\ AfterCall(p, "reply", reply_token(p), ok, "done")
       ELSE /\ pc' = [pc EXCEPT ![p] = "upload"]
            /\ UNCHANGED <<platform, exc, result>>
  /\ UNCHANGED <<fixed, process>>

\* ---------------------------------------- app2-multi-pdf.py process_with_gemini
\* (fault: no except clause for httpx.TimeoutException)
GenerateResultNoTimeoutClause(p, how) ==
  CASE how = "text" -> Text(oracle[p].len, oracle[p].seed)
    [] how = "timeout" -> QueryErrorText(TimeoutError)
    [] OTHER -> QueryErrorText(ApiError)

\* the string the generate_content call turns into, by how the call ended
GenerateResult(p, how) ==
  CASE how = "text" -> Text(oracle[p].len, oracle[p].seed)
    [] how = "timeout" -> TimeoutText
    [] OTHER -> QueryErrorText(ApiError)

\* the string a failed upload turns into
UploadFailure(how) ==
  QueryErrorText(IF how = "timeout" THEN TimeoutError ELSE ApiError)

Upload(p) ==
  /\ pc[p] = "upload"
  /\ uploads[p] < NumDocs
  /\ \/ /\ uploads' = [uploads EXCEPT ![p] = @ + 1]
        /\ pc' = [pc EXCEPT ![p] = IF uploads[p] + 1 = NumDocs THEN "generate" ELSE "upload"]
        /\ UNCHANGED <<outcome, gemini_response>>
     \/ \E how \in {"timeout", "error"} :
          /\ gemini_response' = [gemini_response EXCEPT ![p] = UploadFailure(how)]
          /\ outcome' = [outcome EXCEPT ![p] = "upload_" \o how]
          /\ pc' = [pc EXCEPT ![p] = "deliver"]
          /\ UNCHANGED uploads
  /\ UNCHANGED <<fixed, fetches, docs, generated, chunks, idx, platform, exc, result>>

Generate(p) ==
  /\ pc[p] = "generate"
  /\ generated' = [generated EXCEPT ![p] = @ + 1]
  /\ \E how \in {"text", "timeout", "error"} :
       /\ gemini_response' = [gemini_response EXCEPT ![p] = GenerateResult(p, how)]
       /\ outcome' = [outcome EXCEPT ![p] = how]
  /\ pc' = [pc EXCEPT ![p] = "deliver"]
  /\ UNCHANGED <<fixed, fetches, docs, uploads, chunks, idx, platform, exc, result>>

\* ----------------------- app2-multi-pdf.py handle_text_message, the delivery
Split(p) ==
  /\ pc[p] = "deliver"
  /\ IF NeedsSplit(gemini_response[p])
       THEN /\ chunks' = [chunks EXCEPT ![p] = Chunks(gemini_response[p])]
            /\ pc' = [pc EXCEPT ![p] = "reply_first"]
       ELSE /\ pc' = [pc EXCEPT ![p] = "reply_whole"]
            /\ UNCHANGED chunks
  /\ UNCHANGED <<fixed, fetches, docs, uploads, generated, outcome, gemini_response, idx,
                 platform, exc, result>>

ReplyFirst(p) ==
  /\ pc[p] = "reply_first"
  /\ \E ok \in BOOLEAN :
       /\ Call(p, "reply", reply_token(p), chunks[p][1], ok, 208)
       /\ AfterCall(p, "reply", reply_token(p), ok,
                    IF Len(Rest(chunks[p])) > 0 THEN "push_rest" ELSE "done")
  /\ idx' = [idx EXCEPT ![p] = 1]
  /\ UNCHANGED <<fixed, fetches, docs, uploads, generated, outcome, gemini_response, chunks>>

PushRest(p) ==
  /\ pc[p] = "push_rest"
  /\ \E ok \in BOOLEAN :
       /\ Call(p, "push", user_id(p), Rest(chunks[p])[idx[p]], ok, 215)
       /\ AfterCall(p, "push", user_id(p), ok,
                    IF idx[p] < Len(Rest(chunks[p])) THEN "push_rest" ELSE "done")
       /\ idx' = [idx EXCEPT ![p] = IF ok THEN @ + 1 ELSE @]
  /\ UNCHANGED <<fixed, fetches, docs, uploads, generated, outcome, gemini_response, chunks>>

ReplyWhole(p) ==
  /\ pc[p] = "reply_whole"
  /\ \E ok \in BOOLEAN :
       /\ Call(p, "reply", reply_token(p), gemini_response[p], ok, 220)
       /\ AfterCall(p, "reply", reply_token(p), ok, "done")
  /\ UNCHANGED <<fixed, process>>

\* except Exception as e: the error reply is outside any try, so its own
\* failure leaves handle_text_message and callback as an exception
ExceptReply(p, site) ==
  /\ pc[p] = "except"
  /\ \E ok \in BOOLEAN :
       /\ Call(p, "reply", reply_token(p), RequestErrorText(exc[p]), ok, site)
       /\ result' = [result EXCEPT ![p] = IF ok THEN "OK" ELSE "500"]
  /\ pc' = [pc EXCEPT ![p] = "done"]
  /\ UNCHANGED <<fixed, process, exc>>

Except(p) == variant = "multi" /\ ExceptReply(p, 227)

\* ------------------------------------------------ app.py handle_text_message
App_FetchPdf(p) ==
  /\ pc[p] = "app_fetch"
  /\ fetches' = [fetches EXCEPT ![p] = @ + 1]
  /\ \/ \E n \in 0..MaxDocBytes :
          /\ docs' = [docs EXCEPT ![p] = <<n = 0>>]
          /\ pc' = [pc EXCEPT ![p] = "app_ack"]
          /\ UNCHANGED exc
     \/ /\ exc' = [exc EXCEPT ![p] = DriveError]
        /\ pc' = [pc EXCEPT ![p] = "except"]
        /\ UNCHANGED docs
  /\ UNCHANGED <<fixed, uploads, generated, outcome, gemini_response, chunks, idx,
                 platform, result>>

App_AckPush(p) ==
  /\ pc[p] = "app_ack"
  /\ \E ok \in BOOLEAN :
       /\ Call(p, "push", user_id(p), AckText, ok, 143)
       /\ AfterCall(p, "push", user_id(p), ok, "app_generate")
  /\ UNCHANGED <<fixed, process>>

\* app.py process_with_gemini: one except clause for every failure
App_GenerateResult(p, how) ==
  CASE how = "text" -> Text(oracle[p].len, oracle[p].seed)
    [] how = "timeout" -> QueryErrorText(TimeoutError)
    [] OTHER -> QueryErrorText(ApiError)

App_Generate(p) ==
  /\ pc[p] = "app_generate"
  /\ generated' = [generated EXCEPT ![p] = @ + 1]
  /\ \E how \in {"text", "timeout", "error"} :
       /\ gemini_response' = [gemini_response EXCEPT ![p] = App_GenerateResult(p, how)]
       /\ outcome' = [outcome EXCEPT ![p] = how]
  /\ pc' = [pc EXCEPT ![p] = "app_reply"]
  /\ UNCHANGED <<fixed, fetches, docs, uploads, chunks, idx, platform, exc, result>>

App_Reply(p) ==
  /\ pc[p] = "app_reply"
  /\ \E ok \in BOOLEAN :
       /\ Call(p, "reply", reply_token(p), gemini_response[p], ok, 152)
       /\ AfterCall(p, "reply", reply_token(p), ok, "done")
  /\ UNCHANGED <<fixed, process>>

App_Except(p) == variant = "single" /\ ExceptReply(p, 159)

\* ---------------------------------------------------------- specifications
Multi(p) ==
  \/ callback(p)
  \/ AckPush(p)
  \/ FetchPdf(p)
  \/ CheckEmpty(p)
  \/ Upload(p)
  \/ Generate(p)
  \/ Split(p)
  \/ ReplyFirst(p)
  \/ PushRest(p)
  \/ ReplyWhole(p)
  \/ Except(p)

Single(p) ==
  \/ App_FetchPdf(p)
  \/ App_AckPush(p)
  \/ App_Generate(p)
  \/ App_Reply(p)
  \/ App_Except(p)

Next == \E p \in Reqs : Multi(p) \/ Single(p)

Spec == Init /\ [][Next]_vars

\* two events of different users handled at once by the multi-document program
InitConc ==
  /\ InitCommon
  /\ variant = "multi"
  /\ event \in [Reqs -> Events]
  /\ \A p \in Reqs : event[p].reply_token = Token(p) /\ event[p].valid
  /\ \A p, q \in Reqs : p # q => event[p].user # event[q].user
  /\ oracle \in [Reqs -> Oracles(ConcLens)]
  /\ \A p \in Reqs : oracle[p].seed = ((p - 1) % NumSeeds) + 1
  /\ pc = [p \in Reqs |-> "callback"]

NextConc == \E p \in Reqs : Multi(p)

SpecConc == InitConc /\ [][NextConc]_vars

TypeOK ==
  /\ variant \in Variants
  /\ \A p \in Reqs : result[p] \in {"none", "OK", "400", "500"}
  /\ \A p \in Reqs : Len(docs[p]) <= NumDocs /\ uploads[p] <= NumDocs

\* ================================================================ properties
R(p) == gemini_response[p]
\* process_with_gemini has returned
Returned(p) == outcome[p] # "none"
\* the statement at app2:203-205 has run
SplitDone(p) == Returned(p) /\ pc[p] # "deliver"
AnswerSites == {208, 215, 220, 152}
ErrorSites == {227, 159}
CallsAt(p, S) == SelectSeq(calls[p], LAMBDA c : c.site \in S)
Replies(p) == SelectSeq(calls[p], LAMBDA c : c.op = "reply")
Ceil(a, b) == IF a % b = 0 THEN a \div b ELSE (a \div b) + 1
Contains(t, e) == \E i \in 1..(Len(t) - Len(e) + 1) : SubSeq(t, i, i + Len(e) - 1) = e
Lengths(c) == [k \in 1..Len(c) |-> Len(c[k])]
AllOk(a) == \A i \in 1..Len(a) : a[i].ok

RECURSIVE Concat(_)
Concat(ss) == IF Len(ss) = 0 THEN <<>> ELSE Head(ss) \o Concat(Tail(ss))

\* C1: a response longer than 5000 characters is cut into ceil(len/4000)
\* contiguous substrings in left-to-right order, all of 4000 characters but
\* the last, which holds the remaining 1..4000, and their concatenation is
\* the response.
C1_ChunkerPartition ==
  \A p \in Reqs :
    (variant = "multi" /\ SplitDone(p) /\ Len(R(p)) > THRESHOLD) =>
      LET c == chunks[p]
          n == Len(c)
      IN /\ n = Ceil(Len(R(p)), CHUNK)
         /\ \A k \in 1..(n - 1) : Len(c[k]) = CHUNK
         /\ Len(c[n]) = Len(R(p)) - CHUNK * (n - 1)
         /\ Len(c[n]) \in 1..CHUNK
         /\ \A k \in 1..n :
              c[k] = SubSeq(R(p), CHUNK * (k - 1) + 1, CHUNK * (k - 1) + Len(c[k]))
         /\ Concat(c) = R(p)

C1_Witness ==
  \E p \in Reqs :
    /\ variant = "multi" /\ SplitDone(p)
    /\ Len(R(p)) = 9000
    /\ Lengths(chunks[p]) = <<CHUNK, CHUNK, 1000>>

\* C2: a response of at most 5000 characters (the empty one and the one of
\* exactly 5000 included) is not split: the only call made for the answer is
\* one reply with the event's token and the whole response as text, no push
\* other than the acknowledgment is made, and when that reply succeeds the
\* user has received the response once.
C2_ShortIsOneReply ==
  \A p \in Reqs :
    (variant = "multi" /\ SplitDone(p) /\ Len(R(p)) <= THRESHOLD
       /\ pc[p] \in {"except", "done"}) =>
      LET a == CallsAt(p, AnswerSites)
      IN /\ chunks[p] = <<>>
         /\ Len(a) = 1
         /\ a[1].op = "reply" /\ a[1].to = reply_token(p) /\ a[1].site = 220
         /\ a[1].text = R(p)
         /\ \A i \in 1..Len(calls[p]) : calls[p][i].op = "push" => calls[p][i].site = 176
         /\ a[1].ok => /\ inbox[user_id(p)] = <<AckText, R(p)>>
                       /\ pc[p] = "done" /\ result[p] = "OK"

C2_Witness ==
  \E p \in Reqs :
    /\ variant = "multi" /\ pc[p] = "done" /\ outcome[p] = "text"
    /\ Len(R(p)) = THRESHOLD
    /\ inbox[user_id(p)] = <<AckText, R(p)>>

\* C3: while a split response is delivered, the i-th call made for the answer
\* carries chunk i; the first is a reply with the event's token, every later
\* one a push to the event's user, and none follows a failed one.  When no
\* call failed and the handler has returned, there were exactly n calls (one
\* reply, n-1 pushes) and the user received the chunks in order.
C3_ReplyThenPushes ==
  \A p \in Reqs :
    (variant = "multi" /\ SplitDone(p) /\ Len(R(p)) > THRESHOLD) =>
      LET a == CallsAt(p, AnswerSites)
          c == chunks[p]
      IN /\ Len(a) <= Len(c)
         /\ \A i \in 1..Len(a) :
              /\ a[i].text = c[i]
              /\ i = 1 => a[i].op = "reply" /\ a[i].to = reply_token(p)
              /\ i > 1 => a[i].op = "push" /\ a[i].to = user_id(p)
              /\ i < Len(a) => a[i].ok
         /\ (pc[p] = "done" /\ AllOk(calls[p])) =>
              /\ Len(a) = Len(c)
              /\ Len(Replies(p)) = 1
              /\ inbox[user_id(p)] = <<AckText>> \o c
              /\ result[p] = "OK"

C3_Witness ==
  \E p \in Reqs :
    /\ variant = "multi" /\ pc[p] = "done" /\ AllOk(calls[p])
    /\ Len(chunks[p]) >= 3
    /\ Len(CallsAt(p, AnswerSites)) = Len(chunks[p])

\* C4: whatever fails while a verified event is handled, callback answers
\* 'OK' to the platform.
C4_CallbackAlwaysOK ==
  \A p \in Reqs : (pc[p] = "done" /\ event[p].valid) => result[p] = "OK"

\* C5: once a document fetch has raised, no further fetch, upload or
\* inference call is made and no call for the answer; the handler ends with
\* exactly one reply call, made with the event's token, whose text contains
\* the description of the fetch error.
C5_FetchFailureAborts ==
  \A p \in Reqs :
    exc[p] = DriveError =>
      /\ pc[p] \in {"except", "done"}
      /\ fetches[p] = Len(docs[p]) + 1
      /\ uploads[p] = 0 /\ generated[p] = 0 /\ ~Returned(p)
      /\ CallsAt(p, AnswerSites) = <<>>
      /\ pc[p] = "done" =>
           /\ Len(Replies(p)) = 1
           /\ Replies(p)[1].to = reply_token(p)
           /\ Replies(p)[1].site \in ErrorSites
           /\ Contains(Replies(p)[1].text, DriveError)

C5_Witness ==
  \E p \in Reqs :
    /\ variant = "multi" /\ pc[p] = "done" /\ exc[p] = DriveError
    /\ Len(docs[p]) = 1 /\ fetches[p] = 2

\* C6 (as claimed): whenever the inference step fails with a timeout, the
\* string returned is the fixed timeout message, without the exception text.
C6_TimeoutAlwaysFixedText ==
  \A p \in Reqs :
    outcome[p] \in {"timeout", "upload_timeout"} =>
      R(p) = TimeoutText /\ ~Contains(R(p), TimeoutError)

\* C6 (amended): every failure of the inference step comes back from
\* process_with_gemini as a string and goes down the answer path, so the
\* except clause only ever handles delivery failures.  The string is the
\* fixed timeout message exactly when generate_content of the multi-document
\* program timed out; a timeout of an upload, any timeout of the
\* single-document program and every other failure give the generic message
\* that ends with the exception's text.
C6_InferenceFailureIsAnAnswer ==
  \A p \in Reqs :
    Returned(p) =>
      LET a == CallsAt(p, AnswerSites)
      IN /\ exc[p] \in {<<>>, LineError, TokenError}
         /\ pc[p] \in {"except", "done"} => Len(a) >= 1
         /\ Len(a) >= 1 =>
              a[1].text = IF variant = "multi" /\ NeedsSplit(R(p)) THEN chunks[p][1] ELSE R(p)
         /\ R(p) = TimeoutText <=> (variant = "multi" /\ outcome[p] = "timeout")
         /\ (outcome[p] = "upload_timeout" \/ (variant = "single" /\ outcome[p] = "timeout"))
              => R(p) = QueryErrorText(TimeoutError)
         /\ outcome[p] \in {"error", "upload_error"} => R(p) = QueryErrorText(ApiError)
         /\ outcome[p] = "text" => R(p) = Text(oracle[p].len, oracle[p].seed)

C6_Witness ==
  \E p \in Reqs :
    /\ variant = "multi" /\ pc[p] = "done" /\ result[p] = "OK"
    /\ outcome[p] = "upload_timeout"
    /\ inbox[user_id(p)] = <<AckText, QueryErrorText(TimeoutError)>>

\* C7: when a call made for the answer fails, it is the last call made for
\* the answer, the calls before it carried the chunks once each in order,
\* one error reply with the same token follows, and the failure of that
\* reply is swallowed: callback still answers 'OK'.
C7_DeliveryFailureEndsQuietly ==
  \A p \in Reqs :
    LET a == CallsAt(p, AnswerSites)
        e == CallsAt(p, ErrorSites)
    IN (pc[p] = "done" /\ ~AllOk(a)) =>
         /\ \A i \in 1..(Len(a) - 1) : a[i].ok
         /\ NeedsSplit(R(p)) => \A i \in 1..Len(a) : a[i].text = chunks[p][i]
         /\ Len(e) = 1 /\ e[1].to = reply_token(p)
         /\ result[p] = "OK"

\* C8: the multi-document program makes no fetch before its acknowledgment
\* push has succeeded, so when a fetch fails its calls are that push and then
\* the error reply; the single-document program pushes the acknowledgment
\* only after its fetch has returned a document.
C8_AckOrder ==
  \A p \in Reqs :
    /\ variant = "multi" =>
         /\ fetches[p] > 0 =>
              /\ Len(calls[p]) >= 1
              /\ calls[p][1] = [op |-> "push", to |-> user_id(p), text |-> AckText,
                                ok |-> TRUE, site |-> 176]
              /\ inbox[user_id(p)][1] = AckText
         /\ (exc[p] = DriveError /\ pc[p] = "done") =>
              /\ Len(calls[p]) = 2
              /\ calls[p][2].op = "reply" /\ calls[p][2].site = 227
              /\ calls[p][2].text = RequestErrorText(DriveError)
    /\ variant = "single" =>
         /\ \A i \in 1..Len(calls[p]) :
              calls[p][i].site = 143 => (fetches[p] = 1 /\ Len(docs[p]) = 1)
         /\ exc[p] = DriveError => \A i \in 1..Len(calls[p]) : calls[p][i].site # 143

C8_Witness ==
  \E p \in Reqs :
    /\ variant = "multi" /\ pc[p] = "done" /\ exc[p] = DriveError
    /\ inbox[user_id(p)] = <<AckText, RequestErrorText(DriveError)>>

\* what the request's own successful calls carried, in order
OkTexts(p) ==
  LET s == SelectSeq(calls[p], LAMBDA c : c.ok)
  IN [i \in 1..Len(s) |-> s[i].text]

Texts(a) == [i \in 1..Len(a) |-> a[i].text]
\* the response Gemini gave to this request's query
OwnResponse(p) == Text(oracle[p].len, oracle[p].seed)
\* the texts an answer is delivered as
Plan(t) == IF Len(t) > THRESHOLD THEN Chunks(t) ELSE <<t>>

\* everything request p holds, with what its user has received
Own(p) == <<pc[p], fetches[p], docs[p], uploads[p], generated[p], outcome[p],
            gemini_response[p], chunks[p], idx[p], exc[p], calls[p], result[p],
            inbox[event[p].user]>>

C9_Separate ==
  \A p \in Reqs :
    /\ inbox[event[p].user] = OkTexts(p)
    /\ \A i \in 1..Len(calls[p]) :
         calls[p][i].to = IF calls[p][i].op = "reply" THEN Token(p) ELSE event[p].user
    /\ (SplitDone(p) /\ outcome[p] = "text") =>
         LET a == CallsAt(p, AnswerSites)
         IN Len(a) > 0 => Texts(a) = SubSeq(Plan(OwnResponse(p)), 1, Len(a))
    /\ Token(p) \in tokenUsed <=>
         \E i \in 1..Len(calls[p]) : calls[p][i].op = "reply" /\ calls[p][i].ok

C9_OneAtATime ==
  \A p, q \in Reqs : (p # q /\ Own(p)' # Own(p)) => Own(q)' = Own(q)

\* C9: with two events of different users handled at once, whatever the
\* interleaving, each user receives exactly what the successful calls of their
\* own request carried, in the order they were made (for an answer: the
\* chunks of their own response in order); every reply uses the token of its
\* own event and every push the user of its own event; and a step of one
\* request changes nothing the other request holds or its user has received.
C9_NoInterference == [](C9_Separate) /\ [][C9_OneAtATime]_vars

C9_Witness ==
  /\ \A p \in Reqs : pc[p] = "push_rest" /\ idx[p] = 2
  /\ \A p \in Reqs : Len(inbox[event[p].user]) = 3

\* C10 (as claimed): when the three fetches succeeded and a PDF is empty, the
\* handler ends with exactly one reply call, the fixed message, and the
\* except clause is not taken.
C10_EmptyPdfOneReply ==
  \A p \in Reqs :
    (variant = "multi" /\ Len(docs[p]) = NumDocs /\ pc[p] = "done"
       /\ \E i \in 1..NumDocs : docs[p][i]) =>
      /\ Len(Replies(p)) = 1
      /\ Replies(p)[1].text = EmptyPdfText
      /\ CallsAt(p, ErrorSites) = <<>>
      /\ uploads[p] = 0 /\ generated[p] = 0
      /\ CallsAt(p, AnswerSites) = <<>>

\* C10 (amended): when the three fetches succeeded and a PDF is empty, no
\* upload or inference call is made and no call for the answer; the handler
\* makes one reply call with the fixed message and, if that call succeeds,
\* returns with no further call.  If that call fails, the except clause is
\* taken and makes one error reply.
C10_EmptyPdfReply ==
  \A p \in Reqs :
    (variant = "multi" /\ Len(docs[p]) = NumDocs /\ pc[p] # "check"
       /\ \E i \in 1..NumDocs : docs[p][i]) =>
      /\ pc[p] \in {"except", "done"}
      /\ uploads[p] = 0 /\ generated[p] = 0 /\ ~Returned(p)
      /\ CallsAt(p, AnswerSites) = <<>>
      /\ Len(calls[p]) >= 2
      /\ calls[p][2].op = "reply" /\ calls[p][2].to = reply_token(p)
      /\ calls[p][2].text = EmptyPdfText /\ calls[p][2].site = 191
      /\ (calls[p][2].ok /\ pc[p] = "done") =>
           /\ Len(calls[p]) = 2 /\ result[p] = "OK"
           /\ inbox[user_id(p)] = <<AckText, EmptyPdfText>>
      /\ (~calls[p][2].ok /\ pc[p] = "done") =>
           /\ Len(calls[p]) = 3
           /\ calls[p][3].op = "reply" /\ calls[p][3].site = 227

C10_Witness ==
  \E p \in Reqs :
    /\ variant = "multi" /\ pc[p] = "done" /\ result[p] = "OK"
    /\ Len(docs[p]) = NumDocs
    /\ ~docs[p][1] /\ docs[p][NumDocs]
    /\ inbox[user_id(p)] = <<AckText, EmptyPdfText>>
====
